---- MODULE Spec2Model ----
(***************************************************************************)
(* Model of the mcl_ssg crate: the 64-byte HID interrupt codec             *)
(* (src/src/interrupts.rs) and the construction of the device handle       *)
(* (src/src/lib.rs).                                                        *)
(*                                                                         *)
(* Representation of the machine types                                     *)
(*   u8        a number in 0..255                                          *)
(*   [u8; n]   a function 0..n-1 -> u8 (0-indexed, as in the source)       *)
(*   u64       three big-endian limbs <<hi, mid, lo>>, hi < 2^16,          *)
(*             mid < 2^24, lo < 2^24: hi*2^48 + mid*2^24 + lo              *)
(*   f32       [nan, neg, m, e]: the value (-1)^neg * m / 2^e with         *)
(*             2^23 <= m < 2^24 (24-bit significand) or m = 0, e = 0       *)
(*   String    a sequence of bytes that passed UTF-8 validation            *)
(***************************************************************************)
EXTENDS Integers, Sequences, FiniteSets, TLC

VARIABLES phase, handle, boot, last, pw

vars == <<phase, handle, boot, last, pw>>

(***************************************************************************)
(* Bounds of the model.                                                    *)
(***************************************************************************)
\* frequency arguments are taken within FreqSpan Hz of each cached limit
FreqSpan == 1
\* power arguments are taken within PowerSpan hundredths of a dBm of each limit
PowerSpan == 1
\* largest scaled magnitude (hundredths of a dBm) fed to the power codec
MaxPowerMag == 65535

(***************************************************************************)
(* Program constants.                                                      *)
(***************************************************************************)
SEND_PACKET_LEN == 64

DeviceModelName == 40
DeviceSerialNumber == 41
GeneratorMinimumFrequency == 42
GeneratorMaximumFrequency == 43
GeneratorMinimumPower == 45
GeneratorMaximumPower == 46
SetFreqAndPower == 103
SetRfPowerOnOff == 104
GetGeneratorOutputStatus == 105

Byte == 0..255

\* 2^0 .. 2^30
Pow2Table ==
    << 1, 2, 4, 8, 16, 32, 64, 128, 256, 512, 1024, 2048, 4096, 8192, 16384,
       32768, 65536, 131072, 262144, 524288, 1048576, 2097152, 4194304,
       8388608, 16777216, 33554432, 67108864, 134217728, 268435456,
       536870912, 1073741824 >>

Pow2(n) == Pow2Table[n + 1]

\* bool as u8
BoolU8(b) == IF b THEN 1 ELSE 0

(***************************************************************************)
(* Slices and arrays.                                                      *)
(***************************************************************************)
\* [0u8; n]
ZeroBytes(n) == [i \in 0..(n - 1) |-> 0]

\* &a[from..to]
Slice(a, from, to) == [i \in 0..(to - from - 1) |-> a[from + i]]


\* dst[from..].clone_from_slice(src) / dst[from..to].clone_from_slice(src)
CloneFromSlice(dst, from, src) ==
    [i \in DOMAIN dst |-> IF (i - from) \in DOMAIN src THEN src[i - from] ELSE dst[i]]

\* pack_with_interrupt!(code)
pack_with_interrupt(code) == [ZeroBytes(SEND_PACKET_LEN) EXCEPT ![0] = code]

(***************************************************************************)
(* u64                                                                     *)
(***************************************************************************)
U64Zero == <<0, 0, 0>>

\* u64::from_be_bytes([u8; 8])
from_be_bytes(b) ==
    << b[0] * 256 + b[1],
       b[2] * 65536 + b[3] * 256 + b[4],
       b[5] * 65536 + b[6] * 256 + b[7] >>

\* u64::to_be_bytes(self) -> [u8; 8]
to_be_bytes(x) ==
    [i \in 0..7 |->
        CASE i = 0 -> x[1] \div 256
          [] i = 1 -> x[1] % 256
          [] i = 2 -> x[2] \div 65536
          [] i = 3 -> (x[2] \div 256) % 256
          [] i = 4 -> x[2] % 256
          [] i = 5 -> x[3] \div 65536
          [] i = 6 -> (x[3] \div 256) % 256
          [] OTHER -> x[3] % 256]

\* a < b on u64
U64Lt(a, b) ==
    \/ a[1] < b[1]
    \/ a[1] = b[1] /\ a[2] < b[2]
    \/ a[1] = b[1] /\ a[2] = b[2] /\ a[3] < b[3]

U64Gt(a, b) == U64Lt(b, a)

(***************************************************************************)
(* f32                                                                     *)
(***************************************************************************)
F32Nan == [nan |-> TRUE, neg |-> FALSE, m |-> 0, e |-> 0]

F32(neg, m, e) == [nan |-> FALSE, neg |-> neg, m |-> m, e |-> e]

\* round-half-to-even of num / den
RoundHalfEven(num, den) ==
    LET q == num \div den
        r == num % den
    IN  IF 2 * r > den \/ (2 * r = den /\ q % 2 = 1) THEN q + 1 ELSE q

\* the exponent e with 2^23 <= (num / den) * 2^e < 2^24, for 0 < num / den < 2^24
RECURSIVE NormExp(_, _, _)
NormExp(num, den, e) ==
    IF num * Pow2(e) >= den * Pow2(23) THEN e ELSE NormExp(num, den, e + 1)

\* significand overflow of a rounding: 2^24 / 2^e is 2^23 / 2^(e-1)
Renorm(neg, m, e) == IF m = Pow2(24) THEN F32(neg, Pow2(23), e - 1) ELSE F32(neg, m, e)

\* (n as f32) / 100f32 for an integer n (|n| < 2^24, so n as f32 is exact),
\* negative when neg: the correctly rounded quotient
F32Div100(neg, n) ==
    IF n = 0 THEN F32(neg, 0, 0)
    ELSE LET e == NormExp(n, 100, 0)
         IN  Renorm(neg, RoundHalfEven(n * Pow2(e), 100), e)

\* x * 100.0: the correctly rounded product
F32Mul100(x) ==
    IF x.nan THEN F32Nan
    ELSE IF x.m = 0 THEN x
    ELSE LET p == x.m * 100
             s == IF p >= Pow2(30) THEN 7 ELSE 6
         IN  Renorm(x.neg, RoundHalfEven(p, Pow2(s)), x.e - s)

\* f32::abs
F32Abs(x) == IF x.nan THEN F32Nan ELSE [x EXCEPT !.neg = FALSE]

\* x.signum() == -1.0   (signum of -0.0 is -1.0, of NaN is NaN)
SignumIsMinusOne(x) == ~x.nan /\ x.neg

\* (x as an integer, truncated toward zero) for a non-negative finite x < 2^24
F32Floor(x) ==
    IF x.m = 0 THEN 0
    ELSE IF x.e >= 0 THEN x.m \div Pow2(x.e) ELSE x.m * Pow2(0 - x.e)

\* a float-to-u8 `as` cast of a value whose truncation is n: saturating, NaN is 0
AsU8(n) == IF n > 255 THEN 255 ELSE IF n < 0 THEN 0 ELSE n

\* a < b on f32 (false when either is NaN; -0.0 and 0.0 are equal)
F32Lt(a, b) ==
    /\ ~a.nan
    /\ ~b.nan
    /\ LET \* magnitude order of normalised values: larger e is smaller
           MagLt(x, y) == IF x.m = 0 THEN y.m # 0
                          ELSE y.m # 0 /\ (x.e > y.e \/ (x.e = y.e /\ x.m < y.m))
       IN  CASE a.neg /\ ~b.neg -> a.m # 0 \/ b.m # 0
             [] ~a.neg /\ b.neg -> FALSE
             [] ~a.neg /\ ~b.neg -> MagLt(a, b)
             [] OTHER -> MagLt(b, a)

F32Gt(a, b) == F32Lt(b, a)

(***************************************************************************)
(* Power codec.                                                            *)
(***************************************************************************)
\* fn bytes_to_power(bytes: &[u8]) -> f32
\* (-1)^b0 is -1 for odd b0 and 1 for even b0; the product with the integer
\* 256*b1 + b2 is exact, the division by 100 rounds once.
bytes_to_power(bytes) ==
    F32Div100(bytes[0] % 2 = 1, 256 * bytes[1] + bytes[2])

\* power_to_bytes with the subtraction of power1 * 256 left out
power_to_bytes_nosub(power) ==
    IF power.nan THEN [i \in 0..2 |-> 0]
    ELSE LET x == F32Mul100(F32Abs(power))
         IN  [i \in 0..2 |->
                 CASE i = 0 -> BoolU8(SignumIsMinusOne(power))
                   [] i = 1 -> AsU8(F32Floor(x) \div 256)
                   [] OTHER -> AsU8(F32Floor(x))]

\* fn power_to_bytes(power: f32) -> Vec<u8>
\* power1 = (|p| * 100 / 256).trunc(): the division by 256 is exact.
\* power2 = |p| * 100 - power1 * 256: exact, both operands share an exponent.
power_to_bytes(power) ==
    IF power.nan THEN [i \in 0..2 |-> 0]
    ELSE LET x      == F32Mul100(F32Abs(power))
             power1 == F32Floor(x) \div 256
             power2 == F32Floor(x) - power1 * 256
         IN  [i \in 0..2 |->
                 CASE i = 0 -> BoolU8(SignumIsMinusOne(power))
                   [] i = 1 -> AsU8(power1)
                   [] OTHER -> AsU8(power2)]

(***************************************************************************)
(* Results: MclSsgResult<T> = Result<T, Error>, and a panic of the thread. *)
(***************************************************************************)
Unit == <<>>

Ok(v) == [kind |-> "Ok", err |-> "none", val |-> v]

Err(e) == [kind |-> "Err", err |-> e, val |-> Unit]

\* .expect("cstr must contain null") on None
Panicked == [kind |-> "Panic", err |-> "cstr must contain null", val |-> Unit]

(***************************************************************************)
(* Strings.                                                                *)
(***************************************************************************)
IsCont(b) == b >= 128 /\ b <= 191

\* UTF-8 validation of the bytes s[i..], as String::from_utf8 does it
RECURSIVE Utf8From(_, _)
Utf8From(s, i) ==
    LET n == Len(s)
        b == s[i]
        Cont(k) == i + k <= n /\ IsCont(s[i + k])
    IN  IF i > n THEN TRUE
        ELSE IF b < 128 THEN Utf8From(s, i + 1)
        ELSE IF b >= 194 /\ b <= 223 THEN Cont(1) /\ Utf8From(s, i + 2)
        ELSE IF b = 224
            THEN Cont(1) /\ s[i + 1] >= 160 /\ Cont(2) /\ Utf8From(s, i + 3)
        ELSE IF b = 237
            THEN Cont(1) /\ s[i + 1] <= 159 /\ Cont(2) /\ Utf8From(s, i + 3)
        ELSE IF b >= 225 /\ b <= 239 THEN Cont(1) /\ Cont(2) /\ Utf8From(s, i + 3)
        ELSE IF b = 240
            THEN Cont(1) /\ s[i + 1] >= 144 /\ Cont(2) /\ Cont(3) /\ Utf8From(s, i + 4)
        ELSE IF b = 244
            THEN Cont(1) /\ s[i + 1] <= 143 /\ Cont(2) /\ Cont(3) /\ Utf8From(s, i + 4)
        ELSE IF b >= 241 /\ b <= 243
            THEN Cont(1) /\ Cont(2) /\ Cont(3) /\ Utf8From(s, i + 4)
        ELSE FALSE

\* String::from_utf8(vec), then `?` into Error::InvalidString
from_utf8(vec) == IF Utf8From(vec, 1) THEN Ok(vec) ELSE Err("InvalidString")

\* bytes.iter().position(|x| *x == 0): the first index holding 0, -1 for None
position_zero(bytes) ==
    LET Z == {i \in DOMAIN bytes : bytes[i] = 0}
    IN  IF Z = {} THEN -1 ELSE CHOOSE i \in Z : \A j \in Z : i <= j

\* bytes[1..null_idx].to_vec()
to_vec(bytes, from, to) == [i \in 1..(to - from) |-> bytes[from + i - 1]]

\* "SSG-6000"
Ssg6000Prefix == <<83, 83, 71, 45, 54, 48, 48, 48>>

\* model.starts_with(prefix)
starts_with(str, prefix) ==
    Len(str) >= Len(prefix) /\ \A i \in 1..Len(prefix) : str[i] = prefix[i]

(***************************************************************************)
(* The transport.  A device `dev` is what the HID transport does with one  *)
(* exchange: whether write succeeds, whether read succeeds, and the buffer *)
(* contents read leaves behind.  The log `io` lists the calls made.        *)
(***************************************************************************)
WriteEv(frame, ok) == [ev |-> "write", ok |-> ok, frame |-> frame]

ReadEv(frame, ok) == [ev |-> "read", ok |-> ok, frame |-> frame]

\* write_read without the comparison of the returned interrupt code
write_read_nocheck(dev, bytes) ==
    IF ~dev.w
    THEN [res |-> Err("Hid"), bytes |-> bytes, io |-> <<WriteEv(bytes, FALSE)>>]
    ELSE IF ~dev.r
    THEN [res |-> Err("Hid"), bytes |-> bytes,
          io |-> <<WriteEv(bytes, TRUE), ReadEv(bytes, FALSE)>>]
    ELSE [res |-> Ok(Unit), bytes |-> dev.resp,
          io |-> <<WriteEv(bytes, TRUE), ReadEv(dev.resp, TRUE)>>]

\* write_read reading even when the write failed
write_read_readanyway(dev, bytes) ==
    IF ~dev.r
    THEN [res |-> Err("Hid"), bytes |-> bytes,
          io |-> <<WriteEv(bytes, dev.w), ReadEv(bytes, FALSE)>>]
    ELSE [res |-> IF dev.resp[0] # bytes[0] THEN Err("BadHidRead") ELSE Ok(Unit),
          bytes |-> dev.resp,
          io |-> <<WriteEv(bytes, dev.w), ReadEv(dev.resp, TRUE)>>]

\* fn write_read(dev: &HidDevice, bytes: &mut [u8]) -> MclSsgResult<()>
\* returns the result, the buffer afterwards and the transport calls made
write_read(dev, bytes) ==
    LET code == bytes[0]
    IN  IF ~dev.w
        THEN [res |-> Err("Hid"), bytes |-> bytes, io |-> <<WriteEv(bytes, FALSE)>>]
        ELSE IF ~dev.r
        THEN [res |-> Err("Hid"), bytes |-> bytes,
              io |-> <<WriteEv(bytes, TRUE), ReadEv(bytes, FALSE)>>]
        ELSE [res |-> IF dev.resp[0] # code THEN Err("BadHidRead") ELSE Ok(Unit),
              bytes |-> dev.resp,
              io |-> <<WriteEv(bytes, TRUE), ReadEv(dev.resp, TRUE)>>]

\* the null-terminated string of a filled buffer (interrupts.rs 43-47, 107-111)
cstr(bytes) ==
    LET null_idx == position_zero(bytes)
    IN  IF null_idx = -1 THEN Panicked ELSE from_utf8(to_vec(bytes, 1, null_idx))

\* pub(crate) fn model_name(dev: &HidDevice) -> MclSsgResult<String>
model_name(dev) ==
    LET t == write_read(dev, pack_with_interrupt(DeviceModelName))
    IN  [ret |-> IF t.res.kind # "Ok" THEN t.res ELSE cstr(t.bytes), io |-> t.io]

\* freq_bytes = [0u8; 8]; freq_bytes[from..].clone_from_slice(&bytes[at..at+8-from]);
\* u64::from_be_bytes(freq_bytes)
freq_from(bytes, at, from) ==
    from_be_bytes(CloneFromSlice(ZeroBytes(8), from, Slice(bytes, at, at + 8 - from)))

\* min_freq reading five bytes, as max_freq does
min_freq_5bytes(dev) ==
    LET t == write_read(dev, pack_with_interrupt(GeneratorMinimumFrequency))
    IN  [ret |-> IF t.res.kind # "Ok" THEN t.res ELSE Ok(freq_from(t.bytes, 1, 3)),
         io |-> t.io]

\* pub(crate) fn min_freq(dev: &HidDevice) -> MclSsgResult<u64>
min_freq(dev) ==
    LET t == write_read(dev, pack_with_interrupt(GeneratorMinimumFrequency))
    IN  [ret |-> IF t.res.kind # "Ok" THEN t.res ELSE Ok(freq_from(t.bytes, 1, 4)),
         io |-> t.io]

\* pub(crate) fn max_freq(dev: &HidDevice) -> MclSsgResult<u64>
max_freq(dev) ==
    LET t == write_read(dev, pack_with_interrupt(GeneratorMaximumFrequency))
    IN  [ret |-> IF t.res.kind # "Ok" THEN t.res ELSE Ok(freq_from(t.bytes, 1, 3)),
         io |-> t.io]

\* pub(crate) fn min_power(dev: &HidDevice) -> MclSsgResult<f32>
min_power(dev) ==
    LET t == write_read(dev, pack_with_interrupt(GeneratorMinimumPower))
    IN  [ret |-> IF t.res.kind # "Ok" THEN t.res
                 ELSE Ok(bytes_to_power(Slice(t.bytes, 1, 4))),
         io |-> t.io]

\* pub(crate) fn max_power(dev: &HidDevice) -> MclSsgResult<f32>
max_power(dev) ==
    LET t == write_read(dev, pack_with_interrupt(GeneratorMaximumPower))
    IN  [ret |-> IF t.res.kind # "Ok" THEN t.res
                 ELSE Ok(bytes_to_power(Slice(t.bytes, 1, 4))),
         io |-> t.io]

(***************************************************************************)
(* impl<T> MclSsg<T>: `self` is the handle's cached limits, `dev` what     *)
(* self.dev does with the exchange.                                        *)
(***************************************************************************)
\* pub fn get_model_name(&self) -> MclSsgResult<String>
get_model_name(self, dev) == model_name(dev)

\* pub fn get_serial_number(&self) -> MclSsgResult<String>
get_serial_number(self, dev) ==
    LET t == write_read(dev, pack_with_interrupt(DeviceSerialNumber))
    IN  [ret |-> IF t.res.kind # "Ok" THEN t.res ELSE cstr(t.bytes), io |-> t.io]

\* get_status reading the power one byte early
get_status_power_at_7(self, dev) ==
    LET t == write_read(dev, pack_with_interrupt(GetGeneratorOutputStatus))
        bytes == t.bytes
    IN  [ret |-> IF t.res.kind # "Ok" THEN t.res
                 ELSE Ok([enabled |-> bytes[1] # 0,
                          locked  |-> bytes[2] # 0,
                          freq    |-> freq_from(bytes, 3, 3),
                          power   |-> bytes_to_power(Slice(bytes, 7, 10))]),
         io |-> t.io]

\* pub fn get_status(&self) -> MclSsgResult<Status>
get_status(self, dev) ==
    LET t == write_read(dev, pack_with_interrupt(GetGeneratorOutputStatus))
        bytes == t.bytes
    IN  [ret |-> IF t.res.kind # "Ok" THEN t.res
                 ELSE Ok([enabled |-> bytes[1] # 0,
                          locked  |-> bytes[2] # 0,
                          freq    |-> freq_from(bytes, 3, 3),
                          power   |-> bytes_to_power(Slice(bytes, 8, 11))]),
         io |-> t.io]

\* pub fn set_rf_power_on(&self, enabled: bool) -> MclSsgResult<()>
set_rf_power_on(self, dev, enabled) ==
    LET bytes == [pack_with_interrupt(SetRfPowerOnOff) EXCEPT ![1] = BoolU8(enabled)]
        t == write_read(dev, bytes)
    IN  [ret |-> t.res, io |-> t.io]

\* pub fn get_min_freq(&self) -> u64
get_min_freq(self) == self.min_freq

\* pub fn get_max_freq(&self) -> u64
get_max_freq(self) == self.max_freq

\* pub fn get_min_power(&self) -> f32
get_min_power(self) == self.min_power

\* get_max_power returning the other power limit
get_max_power_returns_min(self) == self.min_power

\* pub fn get_max_power(&self) -> f32
get_max_power(self) == self.max_power

(***************************************************************************)
(* impl MclSsg<Ssg6000>                                                    *)
(***************************************************************************)
\* the range check with exclusive bounds
out_of_range_exclusive(self, freq, power) ==
    \/ ~U64Gt(freq, self.min_freq)
    \/ ~U64Lt(freq, self.max_freq)
    \/ ~F32Gt(power, self.min_power)
    \/ ~F32Lt(power, self.max_power)

\* the range check without the upper frequency bound
out_of_range_no_max_freq(self, freq, power) ==
    \/ U64Lt(freq, self.min_freq)
    \/ F32Lt(power, self.min_power)
    \/ F32Gt(power, self.max_power)

\* the range check of set_frequency_power_trigger (interrupts.rs 170-176)
out_of_range(self, freq, power) ==
    \/ U64Lt(freq, self.min_freq)
    \/ U64Gt(freq, self.max_freq)
    \/ F32Lt(power, self.min_power)
    \/ F32Gt(power, self.max_power)

\* the frame of set_frequency_power_trigger (interrupts.rs 177-182)
set_frame(freq, power, trigger) ==
    LET bytes0 == pack_with_interrupt(SetFreqAndPower)
        freq_bytes == to_be_bytes(freq)
        bytes1 == CloneFromSlice(bytes0, 1, Slice(freq_bytes, 3, 8))
        power_bytes == power_to_bytes(power)
        bytes2 == CloneFromSlice(bytes1, 6, power_bytes)
    IN  [bytes2 EXCEPT ![9] = BoolU8(trigger)]

\* pub fn set_frequency_power_trigger(&self, freq: u64, power: f32, trigger: bool)
\*     -> MclSsgResult<()>
set_frequency_power_trigger(self, dev, freq, power, trigger) ==
    IF out_of_range(self, freq, power)
    THEN [ret |-> Err("OutOfRange"), io |-> <<>>]
    ELSE LET t == write_read(dev, set_frame(freq, power, trigger))
         IN  [ret |-> t.res, io |-> t.io]

\* pub fn new() -> MclSsgResult<Self>
\* api: whether HidApi::new() and api.open(VID, PID) succeed;
\* devs[k]: what the opened device does with the k-th exchange.
new(api, devs) ==
    IF ~api.init \/ ~api.open THEN [ret |-> Err("Hid"), io |-> <<>>]
    ELSE
    LET model == model_name(devs[1]) IN
    IF model.ret.kind # "Ok" THEN model
    ELSE
    LET minf == min_freq(devs[2]) IN
    IF minf.ret.kind # "Ok" THEN [ret |-> minf.ret, io |-> model.io \o minf.io]
    ELSE
    LET maxf == max_freq(devs[3]) IN
    IF maxf.ret.kind # "Ok"
    THEN [ret |-> maxf.ret, io |-> model.io \o minf.io \o maxf.io]
    ELSE
    LET minp == min_power(devs[4]) IN
    IF minp.ret.kind # "Ok"
    THEN [ret |-> minp.ret, io |-> model.io \o minf.io \o maxf.io \o minp.io]
    ELSE
    LET maxp == max_power(devs[5])
        io == model.io \o minf.io \o maxf.io \o minp.io \o maxp.io
    IN
    IF maxp.ret.kind # "Ok" THEN [ret |-> maxp.ret, io |-> io]
    ELSE IF starts_with(model.ret.val, Ssg6000Prefix)
    THEN [ret |-> Ok([min_freq  |-> minf.ret.val,
                      max_freq  |-> maxf.ret.val,
                      min_power |-> minp.ret.val,
                      max_power |-> maxp.ret.val]),
          io |-> io]
    ELSE [ret |-> Err("WrongDevice"), io |-> io]

(***************************************************************************)
(* The environment: what the device may answer, and the arguments callers  *)
(* pass.                                                                   *)
(***************************************************************************)
\* a 64-byte report: byte 0 = code, then the payload, then `fill` to the end
Resp(code, pay, fill) ==
    [i \in 0..(SEND_PACKET_LEN - 1) |->
        IF i = 0 THEN code ELSE IF i <= Len(pay) THEN pay[i] ELSE fill]

\* the exchanges a device can make: write fails; read fails; read fills a frame
Transport(frames) ==
    {[w |-> FALSE, r |-> FALSE, resp |-> ZeroBytes(SEND_PACKET_LEN)],
     [w |-> TRUE, r |-> FALSE, resp |-> ZeroBytes(SEND_PACKET_LEN)]}
    \cup {[w |-> TRUE, r |-> TRUE, resp |-> f] : f \in frames}

\* answers to a string query: "SSG-6000"; the same followed by a terminator and
\* junk; the same with no zero byte anywhere; "SSG-XG"; an empty string; bytes
\* that are not UTF-8; a two-byte UTF-8 character; a frame with another opcode
NameFrames(code) ==
    { Resp(code, Ssg6000Prefix, 0),
      Resp(code, Ssg6000Prefix \o <<0, 88>>, 65),
      Resp(code, Ssg6000Prefix, 65),
      Resp(code, <<83, 83, 71, 45, 88, 71>>, 0),
      Resp(code, <<>>, 0),
      Resp(code, <<255>>, 0),
      Resp(code, <<195, 169>>, 0),
      Resp(code + 1, Ssg6000Prefix, 65) }

\* 100 Hz; 100 Hz followed by junk; 25 MHz; a frame with another opcode
MinFreqFrames ==
    { Resp(GeneratorMinimumFrequency, <<0, 0, 0, 100>>, 0),
      Resp(GeneratorMinimumFrequency, <<0, 0, 0, 100, 9>>, 65),
      Resp(GeneratorMinimumFrequency, <<1, 125, 120, 64>>, 0),
      Resp(GeneratorMaximumFrequency, <<0, 0, 0, 100>>, 0) }

\* 6 GHz followed by junk; 2^40 - 1 Hz; a frame with another opcode
MaxFreqFrames ==
    { Resp(GeneratorMaximumFrequency, <<1, 101, 160, 188, 0, 9>>, 65),
      Resp(GeneratorMaximumFrequency, <<255, 255, 255, 255, 255>>, 0),
      Resp(0, <<1, 101, 160, 188, 0>>, 0) }

\* -60.00 dBm; -0.53 dBm followed by junk; a frame with another opcode
MinPowerFrames ==
    { Resp(GeneratorMinimumPower, <<1, 23, 112>>, 0),
      Resp(GeneratorMinimumPower, <<1, 0, 53, 9>>, 65),
      Resp(GeneratorMaximumPower, <<1, 23, 112>>, 0) }

\* +10.00 dBm; +655.35 dBm followed by junk; a frame with another opcode
MaxPowerFrames ==
    { Resp(GeneratorMaximumPower, <<0, 3, 232>>, 0),
      Resp(GeneratorMaximumPower, <<0, 255, 255, 9>>, 65),
      Resp(GeneratorMinimumPower, <<0, 3, 232>>, 0) }

\* on, unlocked, 1000 Hz, +4.00 dBm; the same followed by junk; off, locked,
\* 6 GHz, -60.00 dBm; flags and a sign byte other than 0 and 1; an even sign
\* byte; a frame with another opcode
StatusFrames ==
    { Resp(GetGeneratorOutputStatus, <<1, 0, 0, 0, 0, 3, 232, 0, 1, 144>>, 0),
      Resp(GetGeneratorOutputStatus, <<1, 0, 0, 0, 0, 3, 232, 0, 1, 144, 7>>, 65),
      Resp(GetGeneratorOutputStatus, <<0, 1, 1, 101, 160, 188, 0, 1, 23, 112>>, 0),
      Resp(GetGeneratorOutputStatus, <<2, 255, 255, 255, 255, 255, 255, 3, 255, 255>>, 0),
      Resp(GetGeneratorOutputStatus, <<0, 0, 0, 0, 0, 0, 0, 2, 0, 53>>, 7),
      Resp(SetRfPowerOnOff, <<1, 0, 0, 0, 0, 3, 232, 0, 1, 144>>, 0) }

\* answers to a set command: the opcode echoed, or another opcode
AckFrames(code) == { Resp(code, <<>>, 0), Resp(0, <<>>, 0) }

\* what the device may do with each kind of exchange
ModelNameDevs == Transport(NameFrames(DeviceModelName))

SerialNumberDevs == Transport(NameFrames(DeviceSerialNumber))

MinFreqDevs == Transport(MinFreqFrames)

MaxFreqDevs == Transport(MaxFreqFrames)

MinPowerDevs == Transport(MinPowerFrames)

MaxPowerDevs == Transport(MaxPowerFrames)

StatusDevs == Transport(StatusFrames)

SetRfDevs == Transport(AckFrames(SetRfPowerOnOff))

SetFreqDevs == Transport(AckFrames(SetFreqAndPower))

Apis == { [init |-> TRUE, open |-> TRUE],
          [init |-> TRUE, open |-> FALSE],
          [init |-> FALSE, open |-> FALSE] }

\* wrapping u64 addition and subtraction, to place arguments around the limits
U64Add(x, y) ==
    LET lo == x[3] + y[3]
        mid == x[2] + y[2] + lo \div 16777216
        hi == x[1] + y[1] + mid \div 16777216
    IN  << hi % 65536, mid % 16777216, lo % 16777216 >>

U64Sub(x, y) ==
    LET lo == x[3] - y[3]
        mid == x[2] - y[2] - (IF lo < 0 THEN 1 ELSE 0)
        hi == x[1] - y[1] - (IF mid < 0 THEN 1 ELSE 0)
    IN  << (hi + 65536) % 65536, (mid + 16777216) % 16777216,
           (lo + 16777216) % 16777216 >>

\* 2^40 as a u64
TwoTo40 == <<0, 65536, 0>>

\* frequency arguments: each limit, the values up to FreqSpan Hz outside it,
\* and a value above 2^40 whose low 40 bits are the minimum frequency
FreqArgs(self) ==
    { self.min_freq, self.max_freq, U64Add(self.min_freq, TwoTo40) }
    \cup { U64Sub(self.min_freq, <<0, 0, d>>) : d \in 1..FreqSpan }
    \cup { U64Add(self.max_freq, <<0, 0, d>>) : d \in 1..FreqSpan }

\* the multiple of 0.01 dBm that is h hundredths, as the nearest f32
Hundredths(h) == IF h < 0 THEN F32Div100(TRUE, 0 - h) ELSE F32Div100(FALSE, h)

\* the nearest whole number of hundredths of a finite f32 (exact arithmetic)
ToHundredths(x) ==
    LET n == IF x.m = 0 THEN 0 ELSE RoundHalfEven(x.m * 100, Pow2(x.e))
    IN  IF x.neg THEN 0 - n ELSE n

\* power arguments: each limit, the values up to PowerSpan hundredths outside
\* it, and NaN
PowerArgs(self) ==
    { self.min_power, self.max_power, F32Nan }
    \cup { Hundredths(ToHundredths(self.min_power) - d) : d \in 1..PowerSpan }
    \cup { Hundredths(ToHundredths(self.max_power) + d) : d \in 1..PowerSpan }

(***************************************************************************)
(* The state machine.                                                      *)
(*   phase   "start" before MclSsg::new, "open" while a handle lives,      *)
(*           "failed" when new returned Err, "panicked" after a panic      *)
(*   handle  the limits cached in the MclSsg                               *)
(*   boot    the frames the four limit queries of new read, in order       *)
(*   last    the last call: operation, arguments, result, transport calls  *)
(*   pw      the power codec applied to one value                          *)
(***************************************************************************)
NoHandle ==
    [min_freq |-> U64Zero, max_freq |-> U64Zero,
     min_power |-> F32(FALSE, 0, 0), max_power |-> F32(FALSE, 0, 0)]

NoCall == [op |-> "none", args |-> Unit, ret |-> Ok(Unit), io |-> <<>>]

PwIdle ==
    [stage |-> "idle", neg |-> FALSE, mag |-> 0, v |-> F32(FALSE, 0, 0),
     bytes |-> [i \in 0..2 |-> 0], out |-> F32(FALSE, 0, 0)]

Init ==
    /\ phase = "start"
    /\ handle = NoHandle
    /\ boot = <<>>
    /\ last = NoCall
    /\ pw = PwIdle

Call(op, args, r) == [op |-> op, args |-> args, ret |-> r.ret, io |-> r.io]

\* a call on the handle: a panic unwinds and drops the handle
Returned(op, args, r) ==
    /\ last' = Call(op, args, r)
    /\ phase' = IF r.ret.kind = "Panic" THEN "panicked" ELSE phase
    /\ UNCHANGED <<handle, boot, pw>>

New ==
    /\ phase = "start"
    /\ \E api \in Apis :
       \E d1 \in ModelNameDevs :
       \E d2 \in MinFreqDevs :
       \E d3 \in MaxFreqDevs :
       \E d4 \in MinPowerDevs :
       \E d5 \in MaxPowerDevs :
         LET r == new(api, <<d1, d2, d3, d4, d5>>)
         IN  /\ last' = Call("new", api, r)
             /\ phase' = CASE r.ret.kind = "Ok" -> "open"
                           [] r.ret.kind = "Panic" -> "panicked"
                           [] OTHER -> "failed"
             /\ handle' = IF r.ret.kind = "Ok" THEN r.ret.val ELSE NoHandle
             /\ boot' = IF r.ret.kind = "Ok"
                        THEN [k \in 1..4 |-> r.io[2 * k + 2].frame]
                        ELSE <<>>
             /\ pw' = pw

GetModelName ==
    /\ phase = "open"
    /\ \E dev \in ModelNameDevs :
         Returned("get_model_name", Unit, get_model_name(handle, dev))

GetSerialNumber ==
    /\ phase = "open"
    /\ \E dev \in SerialNumberDevs :
         Returned("get_serial_number", Unit, get_serial_number(handle, dev))

GetStatus ==
    /\ phase = "open"
    /\ \E dev \in StatusDevs :
         Returned("get_status", Unit, get_status(handle, dev))

SetRfPowerOn ==
    /\ phase = "open"
    /\ \E enabled \in BOOLEAN :
       \E dev \in SetRfDevs :
         Returned("set_rf_power_on", [enabled |-> enabled],
                  set_rf_power_on(handle, dev, enabled))

GetMinFreq ==
    /\ phase = "open"
    /\ Returned("get_min_freq", Unit, [ret |-> Ok(get_min_freq(handle)), io |-> <<>>])

GetMaxFreq ==
    /\ phase = "open"
    /\ Returned("get_max_freq", Unit, [ret |-> Ok(get_max_freq(handle)), io |-> <<>>])

GetMinPower ==
    /\ phase = "open"
    /\ Returned("get_min_power", Unit, [ret |-> Ok(get_min_power(handle)), io |-> <<>>])

GetMaxPower ==
    /\ phase = "open"
    /\ Returned("get_max_power", Unit, [ret |-> Ok(get_max_power(handle)), io |-> <<>>])

SetFrequencyPowerTrigger ==
    /\ phase = "open"
    /\ \E freq \in FreqArgs(handle) :
       \E power \in PowerArgs(handle) :
       \E trigger \in BOOLEAN :
       \E dev \in SetFreqDevs :
         Returned("set_frequency_power_trigger",
                  [freq |-> freq, power |-> power, trigger |-> trigger],
                  set_frequency_power_trigger(handle, dev, freq, power, trigger))

Next ==
    \/ New
    \/ GetModelName
    \/ GetSerialNumber
    \/ GetStatus
    \/ SetRfPowerOn
    \/ GetMinFreq
    \/ GetMaxFreq
    \/ GetMinPower
    \/ GetMaxPower
    \/ SetFrequencyPowerTrigger

Spec == Init /\ [][Next]_vars

(***************************************************************************)
(* The power codec on its own: every multiple of 0.01 dBm of either sign   *)
(* with a scaled magnitude up to MaxPowerMag is encoded, then decoded.     *)
(***************************************************************************)
EncodePower ==
    /\ pw.stage = "idle"
    /\ \E neg \in BOOLEAN, mag \in 0..MaxPowerMag :
         LET v == F32Div100(neg, mag)
         IN  pw' = [stage |-> "encoded", neg |-> neg, mag |-> mag, v |-> v,
                    bytes |-> power_to_bytes(v), out |-> F32(FALSE, 0, 0)]
    /\ UNCHANGED <<phase, handle, boot, last>>

DecodePower ==
    /\ pw.stage = "encoded"
    /\ pw' = [pw EXCEPT !.stage = "decoded", !.out = bytes_to_power(pw.bytes)]
    /\ UNCHANGED <<phase, handle, boot, last>>

NextPower == EncodePower \/ DecodePower

SpecPower == Init /\ [][NextPower]_vars

(***************************************************************************)
(* Vocabulary of the properties.                                           *)
(***************************************************************************)
\* the largest magnitude 16 bits hold
MaxMagnitude == 256 * 256 - 1

\* the big-endian unsigned value of the four bytes f[at..at+3], as a u64
BigEndian4(f, at) ==
    << 0, f[at], f[at + 1] * 65536 + f[at + 2] * 256 + f[at + 3] >>

\* the big-endian unsigned value of the five bytes f[at..at+4], as a u64
BigEndian5(f, at) ==
    << 0, f[at] * 256 + f[at + 1],
       f[at + 2] * 65536 + f[at + 3] * 256 + f[at + 4] >>

\* the sign-magnitude power of the three bytes f[at..at+2]
SignMagnitude(f, at) == F32Div100(f[at] % 2 = 1, 256 * f[at + 1] + f[at + 2])

\* x < 2^32 and x < 2^40 on a u64
BelowTwoTo32(x) == x[1] = 0 /\ x[2] < 256

BelowTwoTo40(x) == x[1] = 0

\* the last call was `op` on the handle
Called(op) == last.op = op

\* the k-th exchange of the last call wrote and read, and the frame read
\* carries another opcode than the frame written
Mismatch(k) ==
    /\ 2 * k <= Len(last.io)
    /\ last.io[2 * k - 1].ok
    /\ last.io[2 * k].ok
    /\ last.io[2 * k].frame[0] # last.io[2 * k - 1].frame[0]

\* the last call made one exchange, which wrote, read and echoed the opcode
Echoed ==
    /\ Len(last.io) = 2
    /\ last.io[1].ok
    /\ last.io[2].ok
    /\ last.io[2].frame[0] = last.io[1].frame[0]

Writes == {k \in 1..Len(last.io) : last.io[k].ev = "write"}

Reads == {k \in 1..Len(last.io) : last.io[k].ev = "read"}

HandleOps ==
    {"get_model_name", "get_serial_number", "get_status", "set_rf_power_on",
     "get_min_freq", "get_max_freq", "get_min_power", "get_max_power",
     "set_frequency_power_trigger"}

(***************************************************************************)
(* Properties.                                                             *)
(***************************************************************************)
\* C1: set_frequency_power_trigger returns OutOfRange and calls the transport
\* not at all whenever freq < min_freq, freq > max_freq, power < min_power or
\* power > max_power (the limits cached in the handle); otherwise, so in
\* particular for a value equal to a bound, it is not rejected and writes
\* exactly one frame, with opcode 103.
C1_RangeEnforcement ==
    Called("set_frequency_power_trigger") =>
        LET a == last.args
            outside == \/ U64Lt(a.freq, handle.min_freq)
                       \/ U64Lt(handle.max_freq, a.freq)
                       \/ F32Lt(a.power, handle.min_power)
                       \/ F32Lt(handle.max_power, a.power)
        IN  IF outside
            THEN last.ret = Err("OutOfRange") /\ last.io = <<>>
            ELSE /\ last.ret # Err("OutOfRange")
                 /\ Cardinality(Writes) = 1
                 /\ last.io[1].ev = "write"
                 /\ last.io[1].frame[0] = SetFreqAndPower

\* C1 witness: a frequency equal to the upper bound with a power just above
\* its upper bound was rejected, with no transport call.
C1_Witness ==
    /\ Called("set_frequency_power_trigger")
    /\ last.args.freq = handle.max_freq
    /\ last.args.power = Hundredths(ToHundredths(handle.max_power) + 1)
    /\ last.ret = Err("OutOfRange")
    /\ last.io = <<>>

\* C2: in every operation, an exchange whose write and read succeed but whose
\* response byte 0 differs from the request's byte 0 is the operation's last
\* exchange, and the operation returns Error::BadHidRead with no value.
C2_OpcodeMismatch ==
    \A k \in 1..5 :
        Mismatch(k) =>
            /\ Len(last.io) = 2 * k
            /\ last.ret.kind = "Err"
            /\ last.ret.err = "BadHidRead"
            /\ last.ret.val = Unit

\* C2 witness: get_status read a frame with another opcode and returned
\* BadHidRead.
C2_Witness ==
    /\ Called("get_status")
    /\ Mismatch(1)
    /\ last.ret = Err("BadHidRead")

\* C3 (as claimed): when get_model_name or get_serial_number reads a frame that
\* echoes the opcode and has no zero byte at any index 1..63, the call returns
\* a MalformedFrame error value and does not panic.
C3_NoTerminatorIsAnError ==
    /\ (Called("get_model_name") \/ Called("get_serial_number"))
    /\ Echoed
    /\ \A i \in 1..(SEND_PACKET_LEN - 1) : last.io[2].frame[i] # 0
    => /\ last.ret.kind = "Err"
       /\ last.ret.err = "MalformedFrame"
       /\ phase # "panicked"

\* C4 (as claimed): in new, when the model-name exchange succeeds and the name
\* does not begin with "SSG-6000", new returns WrongDevice having made that one
\* exchange only: no limit query is issued.
C4_PrefixCheckedBeforeLimits ==
    /\ Called("new")
    /\ Len(last.io) >= 2
    /\ last.io[1].ok
    /\ last.io[2].ok
    /\ last.io[1].frame[0] = DeviceModelName
    /\ last.io[2].frame[0] = DeviceModelName
    /\ cstr(last.io[2].frame).kind = "Ok"
    /\ ~starts_with(cstr(last.io[2].frame).val, Ssg6000Prefix)
    => /\ last.ret = Err("WrongDevice")
       /\ Len(last.io) = 2

\* C5: while a handle lives, its four limits are the values of the four limit
\* frames read at construction (after any calls), and get_min_freq,
\* get_max_freq, get_min_power and get_max_power return them and call the
\* transport not at all.
C5_LimitsCached ==
    phase = "open" =>
        /\ handle.min_freq = BigEndian4(boot[1], 1)
        /\ handle.max_freq = BigEndian5(boot[2], 1)
        /\ handle.min_power = SignMagnitude(boot[3], 1)
        /\ handle.max_power = SignMagnitude(boot[4], 1)
        /\ Called("get_min_freq") =>
               last.ret = Ok(BigEndian4(boot[1], 1)) /\ last.io = <<>>
        /\ Called("get_max_freq") =>
               last.ret = Ok(BigEndian5(boot[2], 1)) /\ last.io = <<>>
        /\ Called("get_min_power") =>
               last.ret = Ok(SignMagnitude(boot[3], 1)) /\ last.io = <<>>
        /\ Called("get_max_power") =>
               last.ret = Ok(SignMagnitude(boot[4], 1)) /\ last.io = <<>>

\* C5 witness: get_max_power returned +655.35 dBm, read at construction, on a
\* handle whose minimum power is another value.
C5_Witness ==
    /\ phase = "open"
    /\ Called("get_max_power")
    /\ last.ret = Ok(Hundredths(65535))
    /\ handle.min_power = Hundredths(-53)
    /\ last.io = <<>>

\* the magnitude the three encoded bytes carry
EncodedMagnitude == 256 * pw.bytes[1] + pw.bytes[2]

\* the round trip is within one hundredth of a dBm and keeps the sign
RoundTripWithin001 ==
    /\ pw.out.neg = pw.neg
    /\ ToHundredths(pw.out) - ToHundredths(pw.v) \in {-1, 0, 1}

\* C6 (as claimed): for every multiple v of 0.01 dBm with scaled magnitude m in
\* 0..65535, bytes_to_power(power_to_bytes(v)) is within 0.01 dBm of v, the
\* encoder emits [sign, m div 256, m mod 256], and the decoder returns
\* (-1)^sign * (256*hi + lo) / 100.
C6_EncoderExact ==
    pw.stage = "decoded" /\ pw.mag <= MaxMagnitude =>
        /\ RoundTripWithin001
        /\ pw.bytes[0] = BoolU8(pw.neg)
        /\ pw.bytes[1] = pw.mag \div 256
        /\ pw.bytes[2] = pw.mag % 256
        /\ pw.out = F32Div100(pw.bytes[0] = 1, EncodedMagnitude)

\* C6 (amended): for every multiple v of 0.01 dBm with scaled magnitude m in
\* 0..65535, bytes_to_power(power_to_bytes(v)) is within 0.01 dBm of v and has
\* its sign; the encoder emits [sign, M div 256, M mod 256] where M is m or
\* m - 1 (the single-precision product |v| * 100 may fall just below m and is
\* truncated), and the decoder returns (-1)^sign * (256*hi + lo) / 100.
C6_PowerRoundTrip ==
    pw.stage = "decoded" /\ pw.mag <= MaxMagnitude =>
        /\ RoundTripWithin001
        /\ pw.bytes[0] = BoolU8(pw.neg)
        /\ EncodedMagnitude \in {pw.mag - 1, pw.mag}
        /\ pw.bytes[1] = EncodedMagnitude \div 256
        /\ pw.bytes[2] = EncodedMagnitude % 256
        /\ pw.out = F32Div100(pw.bytes[0] = 1, EncodedMagnitude)

\* C6 witness: -0.53 dBm was encoded as [1, 0, 52] and decoded to -0.52 dBm.
C6_Witness ==
    /\ pw.stage = "decoded"
    /\ pw.neg
    /\ pw.mag = 53
    /\ pw.bytes = [i \in 0..2 |-> IF i = 0 THEN 1 ELSE IF i = 1 THEN 0 ELSE 52]
    /\ pw.out = Hundredths(-52)

\* C7: the minimum frequency new caches is the big-endian value of bytes 1..4
\* of the minimum-frequency response, below 2^32, and the maximum frequency is
\* the big-endian value of bytes 1..5 of the maximum-frequency response, below
\* 2^40, whatever the later bytes of either frame hold; bytes [0, 0, 0, 0x64]
\* decode to 100.
C7_FrequencyWidth ==
    Called("new") /\ last.ret.kind = "Ok" =>
        LET minf == last.io[4].frame
            maxf == last.io[6].frame
        IN  /\ last.ret.val.min_freq = BigEndian4(minf, 1)
            /\ BelowTwoTo32(last.ret.val.min_freq)
            /\ last.ret.val.max_freq = BigEndian5(maxf, 1)
            /\ BelowTwoTo40(last.ret.val.max_freq)
            /\ (<<minf[1], minf[2], minf[3], minf[4]>> = <<0, 0, 0, 100>>
                   => last.ret.val.min_freq = <<0, 0, 100>>)

\* C7 witness: new decoded 100 Hz from a minimum-frequency frame whose bytes
\* 5..63 are not zero, and 6 GHz from a maximum-frequency frame whose bytes
\* 6..63 are not zero.
C7_Witness ==
    /\ Called("new")
    /\ last.ret.kind = "Ok"
    /\ \A i \in 5..(SEND_PACKET_LEN - 1) : last.io[4].frame[i] # 0
    /\ \A i \in 6..(SEND_PACKET_LEN - 1) : last.io[6].frame[i] # 0
    /\ last.ret.val.min_freq = <<0, 0, 100>>
    /\ last.ret.val.max_freq = <<0, 357, 10533888>>

\* C8: get_status makes one exchange with opcode 105 on every call, and for
\* every response frame with byte 0 = 105 returns enabled = (byte 1 # 0),
\* locked = (byte 2 # 0), freq = the big-endian value of bytes 3..7 and power =
\* the sign-magnitude value of bytes 8..10 (negative for sign byte 1, and for
\* any odd sign byte; magnitude 256*byte 9 + byte 10; divided by 100).
C8_StatusDecode ==
    Called("get_status") =>
        /\ Len(last.io) >= 1
        /\ last.io[1] = WriteEv(pack_with_interrupt(GetGeneratorOutputStatus),
                                last.io[1].ok)
        /\ Echoed =>
               LET f == last.io[2].frame
               IN  last.ret = Ok([enabled |-> f[1] # 0,
                                  locked  |-> f[2] # 0,
                                  freq    |-> BigEndian5(f, 3),
                                  power   |-> SignMagnitude(f, 8)])

\* C8 witness: get_status decoded off, locked, 6 GHz, -60.00 dBm.
C8_Witness ==
    /\ Called("get_status")
    /\ Echoed
    /\ last.ret = Ok([enabled |-> FALSE,
                      locked  |-> TRUE,
                      freq    |-> <<0, 357, 10533888>>,
                      power   |-> Hundredths(-6000)])

\* C9: the transport calls of an operation alternate write, read, starting
\* with a write; a read follows only a write that succeeded; a call that
\* fails is the operation's last and the operation returns the transport's
\* failure; an operation on the handle makes at most one write and one read.
C9_WriteThenRead ==
    /\ \A k \in 1..Len(last.io) :
          /\ last.io[k].ev = (IF k % 2 = 1 THEN "write" ELSE "read")
          /\ (k % 2 = 0 => last.io[k - 1].ok)
          /\ (~last.io[k].ok => k = Len(last.io) /\ last.ret = Err("Hid"))
    /\ last.op \in HandleOps =>
          /\ Cardinality(Writes) <= 1
          /\ Cardinality(Reads) <= 1

\* C9 witness: a write of set_rf_power_on failed; the call returned the
\* transport's failure having read nothing.
C9_Witness ==
    /\ Called("set_rf_power_on")
    /\ Len(last.io) = 1
    /\ last.io[1].ev = "write"
    /\ ~last.io[1].ok
    /\ last.ret = Err("Hid")

\* C10: the cached max_freq is below 2^40, and every frame
\* set_frequency_power_trigger writes has byte 0 = 103 and in bytes 1..5 the
\* five-byte big-endian encoding of freq: decoded as a big-endian unsigned
\* value they give freq back.
C10_FrequencyNotTruncated ==
    /\ phase = "open" => BelowTwoTo40(handle.max_freq)
    /\ Called("set_frequency_power_trigger") /\ last.io # <<>> =>
          /\ last.io[1].ev = "write"
          /\ last.io[1].frame[0] = SetFreqAndPower
          /\ BigEndian5(last.io[1].frame, 1) = last.args.freq

\* C10 witness: the frequency 2^40 - 1 Hz, equal to the cached maximum, was
\* written as five bytes 0xFF.
C10_Witness ==
    /\ Called("set_frequency_power_trigger")
    /\ last.args.freq = <<0, 65535, 16777215>>
    /\ last.args.freq = handle.max_freq
    /\ Len(last.io) >= 1
    /\ \A i \in 1..5 : last.io[1].frame[i] = 255

====
